---- MODULE Spec2Model ----
(***************************************************************************)
(* hybrid_qkd_key_exchange (src/hybrid_key_exchange.py): the hybrid        *)
(* QKD + X25519 + Kyber key exchange, statement by statement.              *)
(*                                                                         *)
(* Python values are records [type, val]: val is the byte string of a      *)
(* bytes object, the scalar/seed of a key object, and empty for None and   *)
(* for a local that is not bound yet.  A SHA3-512 digest and an HKDF       *)
(* output are kept as terms over their inputs (both functions are taken    *)
(* as injective), together with their length in bytes.                     *)
(***************************************************************************)
EXTENDS Integers, Sequences, FiniteSets, TLC

(* ------------------------------ bounds -------------------------------- *)
MaxInvocations == 3     \* calls of hybrid_qkd_key_exchange in one behaviour
MaxQkdLen == 1          \* longest secret the QKD source returns
NumScalars == 2         \* X25519 private scalars the generator draws from
NumKemSeeds == 2        \* seeds kyber_keygen draws from
NumEncapsCoins == 1     \* coins kyber_encapsulate draws from

(* --------------------------- Python values ---------------------------- *)
Unbound == [type |-> "unbound", val |-> <<>>]
PyNone == [type |-> "NoneType", val |-> <<>>]
PyBytes(s) == [type |-> "bytes", val |-> s]

\* bool(v) as the conditional expression of line 45 evaluates it: None and
\* the empty bytes object are falsy, every other bytes object is truthy.
Truthy(v) == v.type = "bytes" /\ Len(v.val) > 0

\* bytes.__add__
Concat(a, b) == PyBytes(a.val \o b.val)

(* ----------------------------- QKD source ----------------------------- *)
\* The byte strings bb84_qkd may return: 0x11 repeated, every length from 0
\* to MaxQkdLen.
QkdSecrets == { PyBytes([i \in 1..n |-> 17]) : n \in 0..MaxQkdLen }

\* The ways the QKD source call may fail.
QkdFailures == {"LinkDown", "EveDetected", "ProtocolError", "Timeout"}

(* ------------------------------- X25519 ------------------------------- *)
X25519SecretLen == 32

Scalars == 1..NumScalars

X25519PrivateKey(k) == [type |-> "X25519PrivateKey", val |-> <<k>>]

\* X25519PrivateKey.public_key()
X25519PublicKey(sk) == [type |-> "X25519PublicKey", val |-> sk.val]

\* X25519PrivateKey.exchange(peer_public_key): 32 bytes that depend on the
\* product of the two scalars only (so both sides agree).
X25519Exchange(sk, pk) ==
    PyBytes([i \in 1..X25519SecretLen |-> IF i = 1 THEN sk.val[1] * pk.val[1] ELSE 0])

(* -------------------------------- Kyber ------------------------------- *)
KemSeeds == 1..NumKemSeeds
EncapsCoins == 1..NumEncapsCoins

\* kyber_keygen() -> (pk, sk)
KyberKeygen(seed) ==
    [pk |-> [type |-> "kyber_pk", val |-> <<seed>>],
     sk |-> [type |-> "kyber_sk", val |-> <<seed>>]]

\* kyber_encapsulate(pk) -> (ciphertext, shared_secret)
KyberEncapsulate(pk, coin) ==
    [ciphertext |-> PyBytes(<<pk.val[1], coin>>),
     secret |-> PyBytes(<<coin, pk.val[1]>>)]

\* kyber_decapsulate(ciphertext, sk): the secret of the encapsulation for a
\* matching key and a well-formed ciphertext, a decapsulation error otherwise.
KyberDecapsOk(ciphertext, sk) ==
    /\ ciphertext.type = "bytes"
    /\ Len(ciphertext.val) = 2
    /\ ciphertext.val[1] = sk.val[1]

KyberDecapsulate(ciphertext, sk) ==
    PyBytes(<<ciphertext.val[2], ciphertext.val[1]>>)

(* --------------------------- SHA3-512, HKDF --------------------------- *)
Sha3DigestSize == 64

NoDigest == [alg |-> "none", size |-> 0, data |-> <<>>]

\* hashlib.sha3_512(data).digest()
Sha3_512(data) == [alg |-> "sha3_512", size |-> Sha3DigestSize, data |-> data.val]

NoKey == [length |-> 0, salt |-> Unbound, info |-> NoDigest, ikm |-> <<>>]

\* HKDF(algorithm=SHA3_512, length, salt, info).derive(ikm)
HKDF(length, salt, info, ikm) ==
    [length |-> length, salt |-> salt, info |-> info, ikm |-> ikm.val]

\* HKDF.__init__ rejects a length above 255 digests; derive wants bytes.
HKDFAccepts(length, ikm) ==
    /\ length <= 255 * Sha3DigestSize
    /\ ikm.type = "bytes"

(* ------------------------------- state -------------------------------- *)
VARIABLES
    pc,        \* the statement the call executes next, or how it ended
    frame,     \* the local variables of the call
    stdout,    \* the line the call printed (line 15 or line 17)
    calls,     \* the library calls the call made so far, with their arguments
    result,    \* what the caller gets: a returned value or a raised exception
    ncalls,    \* the calls made so far, this one included
    earlier    \* the summary of one earlier call, kept by the caller

vars == <<pc, frame, stdout, calls, result, ncalls, earlier>>

QkdMsg == "Using QKD Key Exchange!"
FallbackMsg == "QKD Unavailable. Falling back to Hybrid ECC + PQC."

NoResult == [kind |-> "none", stage |-> "", value |-> NoKey]

EmptyFrame ==
    [qkd_shared_key |-> Unbound,
     alice_ecc_sk |-> Unbound, alice_ecc_pk |-> Unbound,
     bob_ecc_sk |-> Unbound, bob_ecc_pk |-> Unbound,
     ecc_shared_secret |-> Unbound,
     alice_pk_kyber |-> Unbound, alice_sk_kyber |-> Unbound,
     bob_pk_kyber |-> Unbound, bob_sk_kyber |-> Unbound,
     ciphertext |-> Unbound,
     pqc_shared_secret_bob |-> Unbound, pqc_shared_secret_alice |-> Unbound,
     transcript |-> NoDigest,
     final_hybrid_key |-> NoKey]

\* The path the call announced on stdout.
Path(out) ==
    IF out = QkdMsg THEN "QKD" ELSE IF out = FallbackMsg THEN "FALLBACK" ELSE "none"

Call(fn, args) == [fn |-> fn, args |-> args]

NoSummary ==
    [path |-> "none", qkd |-> Unbound, ecc |-> Unbound, pqc |-> Unbound,
     ct |-> Unbound, key |-> NoKey, raised |-> ""]

\* What a finished call leaves behind for comparison with later calls.
Summary(f, out, res) ==
    IF res.kind = "return"
    THEN [path |-> Path(out), qkd |-> f.qkd_shared_key, ecc |-> f.ecc_shared_secret,
          pqc |-> f.pqc_shared_secret_alice, ct |-> f.ciphertext,
          key |-> res.value, raised |-> ""]
    ELSE [path |-> "none", qkd |-> Unbound, ecc |-> Unbound, pqc |-> Unbound,
          ct |-> Unbound, key |-> NoKey, raised |-> res.stage]

(* -------------------------- the function body ------------------------- *)
\* The statement that follows stmt in the body (lines 12-48).
After_HashBeforeDecapsulate(stmt) ==
    CASE stmt = "bb84_qkd" -> "ecc_keygen_alice"
      [] stmt = "ecc_keygen_alice" -> "ecc_keygen_bob"
      [] stmt = "ecc_keygen_bob" -> "ecc_exchange"
      [] stmt = "ecc_exchange" -> "kyber_keygen_alice"
      [] stmt = "kyber_keygen_alice" -> "kyber_keygen_bob"
      [] stmt = "kyber_keygen_bob" -> "kyber_encapsulate"
      [] stmt = "kyber_encapsulate" -> "sha3_512"
      [] stmt = "sha3_512" -> "kyber_decapsulate"
      [] stmt = "kyber_decapsulate" -> "HKDF"
      [] stmt = "HKDF" -> "return"

After(stmt) ==
    CASE stmt = "bb84_qkd" -> "ecc_keygen_alice"
      [] stmt = "ecc_keygen_alice" -> "ecc_keygen_bob"
      [] stmt = "ecc_keygen_bob" -> "ecc_exchange"
      [] stmt = "ecc_exchange" -> "kyber_keygen_alice"
      [] stmt = "kyber_keygen_alice" -> "kyber_keygen_bob"
      [] stmt = "kyber_keygen_bob" -> "kyber_encapsulate"
      [] stmt = "kyber_encapsulate" -> "kyber_decapsulate"
      [] stmt = "kyber_decapsulate" -> "sha3_512"
      [] stmt = "sha3_512" -> "HKDF"
      [] stmt = "HKDF" -> "return"

\* The except clause of lines 16-18, entered with a failure of bb84_qkd.
QkdExcept_Reraise(kind) ==
    [propagates |-> TRUE, qkd_shared_key |-> Unbound, stdout |-> ""]

QkdExcept(kind) ==
    [propagates |-> FALSE, qkd_shared_key |-> PyNone, stdout |-> FallbackMsg]

\* The keys handed to kyber_encapsulate (line 34) and kyber_decapsulate (line 35).
EncapsKey(f) == f.alice_pk_kyber

DecapsKey_Bob(f) == f.bob_sk_kyber

DecapsKey(f) == f.alice_sk_kyber

\* The arguments of HKDF (lines 41-43) and of derive (line 45).
DeriveLength_Short == Sha3DigestSize \div 2

DeriveLength == 64

DeriveSalt_PerCall == PyBytes(<<ncalls>>)

DeriveSalt == PyNone

DeriveInfo_Empty(f) == NoDigest

DeriveInfo(f) == f.transcript

CombinedMaterial_PqcOnly(f) ==
    IF Truthy(f.qkd_shared_key)
    THEN f.qkd_shared_key
    ELSE f.pqc_shared_secret_alice

CombinedMaterial(f) ==
    IF Truthy(f.qkd_shared_key)
    THEN f.qkd_shared_key
    ELSE Concat(f.ecc_shared_secret, f.pqc_shared_secret_alice)

\* An exception raised in statement stmt outside any try block leaves the
\* function: the caller gets the exception and no value.
Raise_FallBackToQkd(stmt) ==
    LET res == IF Truthy(frame.qkd_shared_key)
               THEN [kind |-> "return", stage |-> stmt,
                     value |-> HKDF(DeriveLength, DeriveSalt, NoDigest, frame.qkd_shared_key)]
               ELSE [kind |-> "raise", stage |-> stmt, value |-> NoKey]
    IN /\ pc' = IF res.kind = "return" THEN "returned" ELSE "raised"
       /\ result' = res
       /\ UNCHANGED <<frame, stdout, ncalls, earlier>>

Raise(stmt) ==
    LET res == [kind |-> "raise", stage |-> stmt, value |-> NoKey]
    IN /\ pc' = "raised"
       /\ result' = res
       /\ UNCHANGED <<frame, stdout, ncalls, earlier>>

\* Statement stmt completes normally, binding the locals as in f.
Step(stmt, f) ==
    /\ pc' = After(stmt)
    /\ frame' = f
    /\ UNCHANGED <<stdout, result, ncalls, earlier>>

Init ==
    /\ pc = "idle"
    /\ frame = EmptyFrame
    /\ stdout = ""
    /\ calls = <<>>
    /\ result = NoResult
    /\ ncalls = 0
    /\ earlier = NoSummary

\* A caller (line 51) enters the function with a fresh frame.  Of the calls
\* that finished before, it keeps the summary of one: the one it kept so far
\* or the one that just finished.
Invoke ==
    /\ pc \in {"idle", "returned", "raised"}
    /\ ncalls < MaxInvocations
    /\ pc' = "bb84_qkd"
    /\ frame' = EmptyFrame
    /\ stdout' = ""
    /\ calls' = <<>>
    /\ result' = NoResult
    /\ ncalls' = ncalls + 1
    /\ \/ earlier' = earlier
       \/ /\ pc # "idle"
          /\ earlier' = Summary(frame, stdout, result)

\* Lines 13-18.
TryQkd ==
    /\ pc = "bb84_qkd"
    /\ calls' = Append(calls, Call("bb84_qkd", <<>>))
    /\ \/ \E secret \in QkdSecrets :
            /\ pc' = After("bb84_qkd")
            /\ frame' = [frame EXCEPT !.qkd_shared_key = secret]
            /\ stdout' = QkdMsg
            /\ UNCHANGED <<result, ncalls, earlier>>
       \/ \E kind \in QkdFailures :
            LET h == QkdExcept(kind)
            IN IF h.propagates
               THEN Raise("bb84_qkd")
               ELSE /\ pc' = After("bb84_qkd")
                    /\ frame' = [frame EXCEPT !.qkd_shared_key = h.qkd_shared_key]
                    /\ stdout' = h.stdout
                    /\ UNCHANGED <<result, ncalls, earlier>>

\* Lines 21-22.
EccKeygenAlice ==
    /\ pc = "ecc_keygen_alice"
    /\ calls' = Append(calls, Call("X25519PrivateKey.generate", <<>>))
    /\ \/ \E k \in Scalars :
            Step("ecc_keygen_alice",
                 [frame EXCEPT !.alice_ecc_sk = X25519PrivateKey(k),
                               !.alice_ecc_pk = X25519PublicKey(X25519PrivateKey(k))])
       \/ Raise("ecc_keygen_alice")

\* Lines 23-24.
EccKeygenBob ==
    /\ pc = "ecc_keygen_bob"
    /\ calls' = Append(calls, Call("X25519PrivateKey.generate", <<>>))
    /\ \/ \E k \in Scalars :
            Step("ecc_keygen_bob",
                 [frame EXCEPT !.bob_ecc_sk = X25519PrivateKey(k),
                               !.bob_ecc_pk = X25519PublicKey(X25519PrivateKey(k))])
       \/ Raise("ecc_keygen_bob")

\* Line 27.
EccExchange ==
    /\ pc = "ecc_exchange"
    /\ calls' = Append(calls, Call("X25519PrivateKey.exchange",
                                   <<frame.alice_ecc_sk, frame.bob_ecc_pk>>))
    /\ \/ Step("ecc_exchange",
               [frame EXCEPT !.ecc_shared_secret =
                    X25519Exchange(frame.alice_ecc_sk, frame.bob_ecc_pk)])
       \/ Raise("ecc_exchange")

\* Line 30.
KyberKeygenAlice ==
    /\ pc = "kyber_keygen_alice"
    /\ calls' = Append(calls, Call("kyber_keygen", <<>>))
    /\ \/ \E seed \in KemSeeds :
            Step("kyber_keygen_alice",
                 [frame EXCEPT !.alice_pk_kyber = KyberKeygen(seed).pk,
                               !.alice_sk_kyber = KyberKeygen(seed).sk])
       \/ Raise("kyber_keygen_alice")

\* Line 31.
KyberKeygenBob ==
    /\ pc = "kyber_keygen_bob"
    /\ calls' = Append(calls, Call("kyber_keygen", <<>>))
    /\ \/ \E seed \in KemSeeds :
            Step("kyber_keygen_bob",
                 [frame EXCEPT !.bob_pk_kyber = KyberKeygen(seed).pk,
                               !.bob_sk_kyber = KyberKeygen(seed).sk])
       \/ Raise("kyber_keygen_bob")

\* Line 34.
Encapsulate ==
    /\ pc = "kyber_encapsulate"
    /\ calls' = Append(calls, Call("kyber_encapsulate", <<EncapsKey(frame)>>))
    /\ \/ \E coin \in EncapsCoins :
            LET e == KyberEncapsulate(EncapsKey(frame), coin)
            IN Step("kyber_encapsulate",
                    [frame EXCEPT !.ciphertext = e.ciphertext,
                                  !.pqc_shared_secret_bob = e.secret])
       \/ Raise("kyber_encapsulate")

\* Line 35.
Decapsulate ==
    /\ pc = "kyber_decapsulate"
    /\ calls' = Append(calls, Call("kyber_decapsulate",
                                   <<frame.ciphertext, DecapsKey(frame)>>))
    /\ \/ /\ KyberDecapsOk(frame.ciphertext, DecapsKey(frame))
          /\ Step("kyber_decapsulate",
                  [frame EXCEPT !.pqc_shared_secret_alice =
                       KyberDecapsulate(frame.ciphertext, DecapsKey(frame))])
       \/ Raise("kyber_decapsulate")

\* Line 38.
Transcript ==
    /\ pc = "sha3_512"
    /\ calls' = Append(calls, Call("sha3_512", <<frame.ciphertext>>))
    /\ \/ /\ frame.ciphertext.type = "bytes"
          /\ Step("sha3_512", [frame EXCEPT !.transcript = Sha3_512(frame.ciphertext)])
       \/ Raise("sha3_512")

\* Lines 39-46.
Derive ==
    /\ pc = "HKDF"
    /\ LET ikm == CombinedMaterial(frame)
       IN /\ calls' = Append(calls, Call("HKDF.derive", <<ikm>>))
          /\ \/ /\ HKDFAccepts(DeriveLength, ikm)
                /\ Step("HKDF",
                        [frame EXCEPT !.final_hybrid_key =
                             HKDF(DeriveLength, DeriveSalt, DeriveInfo(frame), ikm)])
             \/ Raise("HKDF")

\* Line 48.
Return ==
    /\ pc = "return"
    /\ LET res == [kind |-> "return", stage |-> "", value |-> frame.final_hybrid_key]
       IN /\ pc' = "returned"
          /\ result' = res
          /\ UNCHANGED <<frame, stdout, calls, ncalls, earlier>>

Next ==
    \/ Invoke
    \/ TryQkd
    \/ EccKeygenAlice
    \/ EccKeygenBob
    \/ EccExchange
    \/ KyberKeygenAlice
    \/ KyberKeygenBob
    \/ Encapsulate
    \/ Decapsulate
    \/ Transcript
    \/ Derive
    \/ Return

Spec == Init /\ [][Next]_vars

(* ------------------------------- claims ------------------------------- *)
\* The library calls of the body in program order (lines 14-46).
CallOrder ==
    <<"bb84_qkd", "X25519PrivateKey.generate", "X25519PrivateKey.generate",
      "X25519PrivateKey.exchange", "kyber_keygen", "kyber_keygen",
      "kyber_encapsulate", "kyber_decapsulate", "sha3_512", "HKDF.derive">>

\* The statements of the body in program order.
StmtOrder ==
    <<"bb84_qkd", "ecc_keygen_alice", "ecc_keygen_bob", "ecc_exchange",
      "kyber_keygen_alice", "kyber_keygen_bob", "kyber_encapsulate",
      "kyber_decapsulate", "sha3_512", "HKDF">>

Derived == pc \in {"return", "returned"}

\* The key material the call handed to HKDF.derive.
Material == calls[Len(calls)].args[1]

\* The kept earlier call returned a key.
EarlierReturned == earlier.path # "none"

\* C1: the key material is chosen by the QKD outcome alone: after a QKD
\* success (any byte string, the empty one included) it is the QKD secret,
\* after a QKD failure it is the ECDH secret followed by the PQC secret.
C1_MaterialFollowsQkdOutcome ==
    Derived =>
        /\ Path(stdout) = "QKD" => Material = frame.qkd_shared_key
        /\ Path(stdout) = "FALLBACK" =>
              Material = PyBytes(frame.ecc_shared_secret.val
                                   \o frame.pqc_shared_secret_alice.val)

\* C2: a failure of the QKD source never aborts the call: no exception
\* leaves the function from the bb84_qkd statement, the failure is recorded
\* as qkd_shared_key = None, and the call goes on to the later statements,
\* where only a later statement's failure can end it without a key.
C2_QkdFailureIsHandled ==
    /\ result.kind = "raise" => result.stage # "bb84_qkd"
    /\ Path(stdout) = "FALLBACK" =>
          /\ frame.qkd_shared_key = PyNone
          /\ pc \in {StmtOrder[i] : i \in 2..Len(StmtOrder)} \cup {"return", "returned", "raised"}
          /\ pc = "raised" => \E i \in 2..Len(StmtOrder) :
                                  result.stage = StmtOrder[i] /\ Len(calls) = i
    /\ pc = "bb84_qkd" => Len(calls) = 0

C2_FallbackReturnsKey ==
    /\ pc = "returned"
    /\ Path(stdout) = "FALLBACK"
    /\ result.kind = "return"
    /\ result.value.ikm = frame.ecc_shared_secret.val \o frame.pqc_shared_secret_alice.val

\* C3: a failure in a statement after the QKD attempt ends the call with the
\* exception and no key, on both paths: a call that ended with an exception
\* ran nothing after the failing statement, derived and returned no key; a
\* call returns a value only when every statement completed.
C3_LaterFailureAborts ==
    /\ result.stage # "" =>
          /\ pc = "raised"
          /\ result.kind = "raise"
          /\ result.value = NoKey
          /\ frame.final_hybrid_key = NoKey
          /\ \E i \in 1..Len(StmtOrder) : result.stage = StmtOrder[i] /\ Len(calls) = i
    /\ result.kind = "return" =>
          /\ pc = "returned"
          /\ Len(calls) = Len(CallOrder)

C3_FailureOnQkdPath ==
    /\ pc = "raised"
    /\ Path(stdout) = "QKD"
    /\ Truthy(frame.qkd_shared_key)
    /\ result.stage = "kyber_decapsulate"
    /\ result.value = NoKey

\* C4: a call ends in exactly one of two outcomes, a returned key of exactly
\* 64 bytes that is the HKDF output, or an exception with no key; before it
\* ends the caller has nothing.
C4_KeyOf64BytesOrFailure ==
    /\ pc = "returned" =>
          /\ result.kind = "return"
          /\ result.value.length = 64
          /\ result.value = frame.final_hybrid_key
          /\ result.value = HKDF(64, PyNone, Sha3_512(frame.ciphertext), Material)
    /\ pc = "raised" => result.kind = "raise" /\ result.value = NoKey
    /\ pc \notin {"returned", "raised"} => result = NoResult

C4_KeyReturned ==
    /\ pc = "returned"
    /\ result.value.length = 64
    /\ result.value.info.size = Sha3DigestSize

\* C5: path isolation: two calls in which the QKD source succeeded with the
\* same secret, with the same KEM ciphertext, return the same key whatever
\* their ECDH and PQC secrets are.
C5_PathIsolation ==
    ( /\ pc = "returned"
      /\ EarlierReturned
      /\ earlier.path = "QKD"
      /\ Path(stdout) = "QKD"
      /\ earlier.qkd = frame.qkd_shared_key
      /\ earlier.ct = frame.ciphertext )
    => earlier.key = result.value

\* C6: fallback sensitivity: two calls in which the QKD source failed and
\* whose ECDH secrets differ, or whose PQC secrets differ, hand different key
\* material to the derivation and return different keys (with the same KEM
\* ciphertext or not).
C6_FallbackSensitivity ==
    ( /\ pc = "returned"
      /\ EarlierReturned
      /\ earlier.path = "FALLBACK"
      /\ Path(stdout) = "FALLBACK"
      /\ \/ earlier.ecc # frame.ecc_shared_secret
         \/ earlier.pqc # frame.pqc_shared_secret_alice )
    => /\ earlier.key.ikm # Material.val
       /\ earlier.key.ikm # result.value.ikm
       /\ earlier.key # result.value

C6_EccDiffersSameCiphertext ==
    /\ pc = "returned"
    /\ EarlierReturned
    /\ earlier.path = "FALLBACK"
    /\ Path(stdout) = "FALLBACK"
    /\ earlier.ct = frame.ciphertext
    /\ earlier.pqc = frame.pqc_shared_secret_alice
    /\ earlier.ecc # frame.ecc_shared_secret

\* C7: transcript binding: on both paths the info of the derivation is the
\* SHA3-512 digest of the ciphertext the call's encapsulation produced, so
\* two calls with the same key material and different ciphertexts return
\* different keys.
C7_TranscriptBinding ==
    /\ Derived =>
          /\ frame.transcript = Sha3_512(frame.ciphertext)
          /\ frame.final_hybrid_key.info = Sha3_512(frame.ciphertext)
          /\ \E coin \in EncapsCoins :
                frame.ciphertext = KyberEncapsulate(frame.alice_pk_kyber, coin).ciphertext
    /\ ( /\ pc = "returned"
         /\ EarlierReturned
         /\ earlier.key.ikm = result.value.ikm
         /\ earlier.ct # frame.ciphertext )
       => earlier.key # result.value

C7_SameMaterialOtherCiphertext ==
    /\ pc = "returned"
    /\ EarlierReturned
    /\ earlier.path = "QKD"
    /\ Path(stdout) = "QKD"
    /\ earlier.key.ikm = result.value.ikm
    /\ earlier.ct # frame.ciphertext
    /\ earlier.key # result.value

\* C8: determinism and statelessness: two calls with the same QKD outcome,
\* ECDH secret, PQC secret and ciphertext, and two calls with the same path,
\* key material and transcript, return the same key, whatever calls ran
\* before or between them.
C8_Deterministic ==
    ( pc = "returned" /\ EarlierReturned ) =>
        /\ ( /\ earlier.qkd = frame.qkd_shared_key
             /\ earlier.ecc = frame.ecc_shared_secret
             /\ earlier.pqc = frame.pqc_shared_secret_alice
             /\ earlier.ct = frame.ciphertext )
           => earlier.key = result.value
        /\ ( /\ earlier.path = Path(stdout)
             /\ earlier.key.ikm = result.value.ikm
             /\ earlier.key.info = result.value.info )
           => earlier.key = result.value

C8_SameInputsThirdCall ==
    /\ pc = "returned"
    /\ ncalls = 3
    /\ EarlierReturned
    /\ earlier.qkd = frame.qkd_shared_key
    /\ earlier.ecc = frame.ecc_shared_secret
    /\ earlier.pqc = frame.pqc_shared_secret_alice
    /\ earlier.ct = frame.ciphertext
    /\ earlier.key = result.value

\* C9: step ordering: the calls a run has made are always an initial part
\* of the program order (QKD first; hashing and derivation after
\* decapsulation), and a run that reaches the derivation or returns has made
\* all of them, whether the QKD attempt succeeded or failed.
C9_StepOrder ==
    /\ Len(calls) <= Len(CallOrder)
    /\ \A i \in 1..Len(calls) : calls[i].fn = CallOrder[i]
    /\ pc = "HKDF" => Len(calls) = Len(CallOrder) - 1
    /\ Derived => Len(calls) = Len(CallOrder)
    /\ frame.transcript # NoDigest => frame.pqc_shared_secret_alice # Unbound
    /\ frame.final_hybrid_key # NoKey => frame.transcript # NoDigest

C9_AllStepsOnQkdPath ==
    /\ pc = "returned"
    /\ Truthy(frame.qkd_shared_key)
    /\ Len(calls) = Len(CallOrder)

\* C10: KEM self-consistency: decapsulation is called with the private key
\* of the pair whose public key encapsulation was called with, and with the
\* ciphertext encapsulation produced; the decapsulated secret equals the
\* encapsulated one; the other KEM pair of the run is no argument of either
\* call, and the ciphertext is an encapsulation under the first pair's key.
C10_KemSelfConsistent ==
    /\ Len(calls) >= 7 => calls[7].args = <<frame.alice_pk_kyber>>
    /\ frame.ciphertext # Unbound =>
          /\ Len(calls) >= 7
          /\ \E coin \in EncapsCoins :
                /\ frame.ciphertext = KyberEncapsulate(frame.alice_pk_kyber, coin).ciphertext
                /\ frame.pqc_shared_secret_bob = KyberEncapsulate(frame.alice_pk_kyber, coin).secret
    /\ Len(calls) >= 8 =>
          /\ calls[8].args[1] = frame.ciphertext
          /\ \E seed \in KemSeeds :
                /\ calls[7].args[1] = KyberKeygen(seed).pk
                /\ calls[8].args[2] = KyberKeygen(seed).sk
    /\ frame.pqc_shared_secret_alice # Unbound =>
          frame.pqc_shared_secret_alice = frame.pqc_shared_secret_bob
    /\ ( Derived /\ ~Truthy(frame.qkd_shared_key) ) =>
          Material = Concat(frame.ecc_shared_secret, frame.pqc_shared_secret_bob)

C10_TwoDifferentKemPairs ==
    /\ pc = "returned"
    /\ Path(stdout) = "FALLBACK"
    /\ frame.bob_sk_kyber # frame.alice_sk_kyber
    /\ frame.bob_sk_kyber.val # frame.alice_sk_kyber.val
    /\ frame.pqc_shared_secret_alice = frame.pqc_shared_secret_bob

====
